---- MODULE Spec2Model ----
(***************************************************************************)
(* The Trustpay client of trustpay/client.py as a state machine.           *)
(*                                                                         *)
(* State: the one client object (its fields), the requests.post exchanges  *)
(* and the sign() messages of the most recent call, that call's outcome,   *)
(* and two tallies over all calls of the token endpoint's exchanges.  The  *)
(* client is                                                               *)
(* synchronous and single-threaded: one action is one complete call of a   *)
(* public method, every requests.post it makes included, with the          *)
(* provider's answers, the clock and the uuid drawn from small sets.       *)
(*                                                                         *)
(* Python str values are TLA+ strings.  A Python value whose type matters  *)
(* carries it: [t |-> "NoneType" | "str" | "bytes" | "int" | "float" |     *)
(* "bool" | "dict", v |-> ...].  A float is the integer number of its      *)
(* thousandths (100000 is 100.0); a dict is the sequence of its            *)
(* <<key, value>> items in insertion order.                                *)
(***************************************************************************)
EXTENDS Integers, Sequences, FiniteSets, TLC

VARIABLES
    client,         \* the Trustpay object: its fields, and whether it exists
    http,           \* the requests.post exchanges of the most recent call, in order
    signed,         \* the messages the most recent call handed to sign()
    last,           \* the most recent call: method, arguments, uuid and clock read, outcome
    ncalls,         \* the calls made on the client since its construction
    token_posts,    \* the token-endpoint exchanges made so far, by every call
    token_refused   \* whether the token endpoint has answered other than 200

vars == <<client, http, signed, last, ncalls, token_posts, token_refused>>

\* Number of public-method calls made on the client after its construction.
MaxCalls == 2

-----------------------------------------------------------------------------
(* Python values *)

PyNone == [t |-> "NoneType", v |-> ""]

PyStr(s) == [t |-> "str", v |-> s]

PyBytes(s) == [t |-> "bytes", v |-> s]

PyInt(n) == [t |-> "int", v |-> n]

PyFloat(thousandths) == [t |-> "float", v |-> thousandths]

PyBool(b) == [t |-> "bool", v |-> b]

PyDict(items) == [t |-> "dict", v |-> items]

\* bool(x): None, the empty str or bytes, 0, 0.0, False and {} are falsy.
Truthy(x) ==
    CASE x.t = "NoneType" -> FALSE
      [] x.t \in {"str", "bytes"} -> x.v # ""
      [] x.t \in {"int", "float"} -> x.v # 0
      [] x.t = "bool" -> x.v
      [] x.t = "dict" -> x.v # <<>>

\* k in d
HasKey(d, k) == \E i \in DOMAIN d.v : d.v[i][1] = k

\* d[k], for a key d has
GetItem(d, k) == d.v[CHOOSE i \in DOMAIN d.v : d.v[i][1] = k][2]

\* d[k] = x, for a key d does not have yet
SetNewItem(d, k, x) == PyDict(Append(d.v, <<k, x>>))

-----------------------------------------------------------------------------
(* str methods *)

Char(s, i) == SubSeq(s, i, i)

Contains(s, c) == \E i \in 1..Len(s) : Char(s, i) = c

\* s.find(c) + 1, for a one-character c that occurs in s
Find(s, c) ==
    CHOOSE i \in 1..Len(s) : Char(s, i) = c /\ \A j \in 1..(i - 1) : Char(s, j) # c

\* s.replace(old, new), for a one-character old: the text between the
\* occurrences of old, in order, with new in place of each.
Replace(s, old, new) ==
    LET RECURSIVE From(_, _)
        From(start, hits) ==
            IF hits = {} THEN SubSeq(s, start, Len(s))
            ELSE LET i == CHOOSE h \in hits : \A g \in hits : h <= g
                 IN  SubSeq(s, start, i - 1) \o new \o From(i + 1, hits \ {i})
    IN  From(1, {i \in 1..Len(s) : Char(s, i) = old})

\* s.split(sep)[0], for a one-character sep
SplitFirst(s, sep) == IF Contains(s, sep) THEN SubSeq(s, 1, Find(s, sep) - 1) ELSE s

\* s.count(sub): the occurrences of sub, scanned left to right without overlap
RECURSIVE Count(_, _)
Count(s, sub) ==
    LET n == Len(sub)
        hits == {i \in 1..(Len(s) - n + 1) : SubSeq(s, i, i + n - 1) = sub}
    IN  IF n = 0 THEN Len(s) + 1
        ELSE IF hits = {} THEN 0
        ELSE LET i == CHOOSE k \in hits : \A m \in hits : k <= m
             IN  1 + Count(SubSeq(s, i + n, Len(s)), sub)

\* sub in s
IsSubstring(sub, s) ==
    \E i \in 1..(Len(s) - Len(sub) + 1) : SubSeq(s, i, i + Len(sub) - 1) = sub

\* The decimal digits of n < 10^w, left-padded with zeros to width w <= 3.
ZeroPad(n, w) ==
    IF w >= 3 /\ n < 10 THEN "00" \o ToString(n)
    ELSE IF (w >= 3 /\ n < 100) \/ (w = 2 /\ n < 10) THEN "0" \o ToString(n)
    ELSE ToString(n)

\* digits.rstrip("0") or "0"
RECURSIVE StripZeros(_)
StripZeros(digits) ==
    IF Len(digits) > 1 /\ Char(digits, Len(digits)) = "0"
    THEN StripZeros(SubSeq(digits, 1, Len(digits) - 1))
    ELSE digits

\* repr of a non-negative float with at most three decimals: the shortest
\* decimal that reads back as the same double, with at least one decimal.
FloatRepr(th) == ToString(th \div 1000) \o "." \o StripZeros(ZeroPad(th % 1000, 3))

\* format(x, ".2f") of a non-negative float: the double rounded to two
\* decimals.  A third decimal of 5 is a tie only when the double is exactly
\* that decimal (th a multiple of 125), and ties go to the even cent; the
\* amounts drawn below have no other third decimal of 5.
FormatFixed2(th) ==
    LET cents == th \div 10
        rest == th % 10
        rounded == IF rest > 5 \/ (rest = 5 /\ cents % 2 = 1) THEN cents + 1 ELSE cents
    IN  ToString(rounded \div 100) \o "." \o ZeroPad(rounded % 100, 2)

\* format(x, ""), what an f-string field or a str.format field without a
\* format spec renders.
PyFormat(x) ==
    CASE x.t = "NoneType" -> "None"
      [] x.t = "str" -> x.v
      [] x.t = "int" -> ToString(x.v)
      [] x.t = "float" -> FloatRepr(x.v)
      [] x.t = "bool" -> IF x.v THEN "True" ELSE "False"

\* repr of a list of plain str
RECURSIVE ListItemsRepr(_)
ListItemsRepr(l) ==
    IF l = <<>> THEN ""
    ELSE "'" \o Head(l) \o "'" \o (IF Len(l) > 1 THEN ", " ELSE "") \o ListItemsRepr(Tail(l))

ListRepr(l) == "[" \o ListItemsRepr(l) \o "]"

-----------------------------------------------------------------------------
(* bytes, base64, urlencode, json *)

\* The printable ASCII characters chr(32) .. chr(95) and chr(97) .. chr(126);
\* chr(96), the grave accent, cannot be written in a TLA+ string and is in
\* none of the strings drawn below.
AsciiLow ==
    " !\"#$%&'()*+,-./0123456789:;<=>?@ABCDEFGHIJKLMNOPQRSTUVWXYZ[\\]^_"

AsciiHigh == "abcdefghijklmnopqrstuvwxyz{|}~"

\* ord(c) of a printable ASCII character; its UTF-8 encoding is that one byte.
Ord(c) == IF Contains(AsciiLow, c) THEN 31 + Find(AsciiLow, c) ELSE 96 + Find(AsciiHigh, c)

B64Alphabet == "ABCDEFGHIJKLMNOPQRSTUVWXYZabcdefghijklmnopqrstuvwxyz0123456789+/"

B64Char(k) == Char(B64Alphabet, k + 1)

\* base64.b64encode(s.encode("utf-8")).decode(), for ASCII s
RECURSIVE b64encode(_)
b64encode(s) ==
    IF s = "" THEN ""
    ELSE LET n == Len(s)
             b1 == Ord(Char(s, 1))
             b2 == IF n >= 2 THEN Ord(Char(s, 2)) ELSE 0
             b3 == IF n >= 3 THEN Ord(Char(s, 3)) ELSE 0
             bits == b1 * 65536 + b2 * 256 + b3
         IN  B64Char(bits \div 262144)
             \o B64Char((bits \div 4096) % 64)
             \o (IF n >= 2 THEN B64Char((bits \div 64) % 64) ELSE "=")
             \o (IF n >= 3 THEN B64Char(bits % 64) ELSE "=")
             \o b64encode(SubSeq(s, 4, n))

HexDigits == "0123456789ABCDEF"

\* urllib.parse.quote_plus of one ASCII character
QuoteChar(c) ==
    IF c = " " THEN "+"
    ELSE IF Contains("ABCDEFGHIJKLMNOPQRSTUVWXYZabcdefghijklmnopqrstuvwxyz0123456789_.-~", c) THEN c
    ELSE "%" \o Char(HexDigits, (Ord(c) \div 16) + 1) \o Char(HexDigits, (Ord(c) % 16) + 1)

RECURSIVE quote_plus(_)
quote_plus(s) == IF s = "" THEN "" ELSE QuoteChar(Char(s, 1)) \o quote_plus(SubSeq(s, 2, Len(s)))

\* urllib.parse.urlencode of a dict of str
RECURSIVE UrlencodeItems(_)
UrlencodeItems(items) ==
    IF items = <<>> THEN ""
    ELSE quote_plus(Head(items)[1]) \o "=" \o quote_plus(PyFormat(Head(items)[2]))
         \o (IF Len(items) > 1 THEN "&" ELSE "") \o UrlencodeItems(Tail(items))

urlencode(d) == UrlencodeItems(d.v)

\* The body of a JSON string literal: json.dumps escapes the backslash, the
\* double quote and the newline (the other control characters and non-ASCII
\* characters are not drawn below).
JsonEscape(s) == Replace(Replace(Replace(s, "\\", "\\\\"), "\"", "\\\""), "\n", "\\n")

\* json.dumps with its default separators
RECURSIVE json_dumps(_)
RECURSIVE JsonItems(_)
JsonItems(items) ==
    IF items = <<>> THEN ""
    ELSE "\"" \o JsonEscape(Head(items)[1]) \o "\": " \o json_dumps(Head(items)[2])
         \o (IF Len(items) > 1 THEN ", " ELSE "") \o JsonItems(Tail(items))

json_dumps(x) ==
    CASE x.t = "NoneType" -> "null"
      [] x.t = "str" -> "\"" \o JsonEscape(x.v) \o "\""
      [] x.t = "int" -> ToString(x.v)
      [] x.t = "float" -> FloatRepr(x.v)
      [] x.t = "bool" -> IF x.v THEN "true" ELSE "false"
      [] x.t = "dict" -> "{" \o JsonItems(x.v) \o "}"

-----------------------------------------------------------------------------
(* trustpay/__init__.py *)

order_xml_string ==
    "\n" \o
    "<?xml version=\"1.0\" encoding=\"UTF-8\"?>\n" \o
    "<Document xmlns:xsd=\"http://www.w3.org/2001/XMLSchema\"\n" \o
    "          xmlns:xsi=\"http://www.w3.org/2001/XMLSchema-instance\"\n" \o
    "          xmlns=\"urn:iso:std:iso:20022:tech:xsd:pain.001.001.03\">\n" \o
    "    <CstmrCdtTrfInitn>\n" \o
    "        <GrpHdr>\n" \o
    "            <MsgId>{MessageId}</MsgId>\n" \o
    "            <CreDtTm>{CreationDateTime}</CreDtTm>\n" \o
    "            <NbOfTxs>1</NbOfTxs>\n" \o
    "            <InitgPty/>\n" \o
    "        </GrpHdr>\n" \o
    "        <PmtInf>\n" \o
    "            <PmtInfId>1</PmtInfId>\n" \o
    "            <PmtMtd>TRF</PmtMtd>\n" \o
    "            <PmtTpInf>\n" \o
    "                <LclInstrm>\n" \o
    "                    <Prtry>BWT2/EU</Prtry>\n" \o
    "                </LclInstrm>\n" \o
    "            </PmtTpInf>\n" \o
    "            <ReqdExctnDt>{RequestedExecutionDate}</ReqdExctnDt>\n" \o
    "            <Dbtr>\n" \o
    "                <Nm>{DebtorName}</Nm>\n" \o
    "            </Dbtr>\n" \o
    "            <DbtrAcct>\n" \o
    "                <Id>\n" \o
    "                    <Othr>\n" \o
    "                        <Id>{DebtorAccount}</Id>\n" \o
    "                    </Othr>\n" \o
    "                </Id>\n" \o
    "            </DbtrAcct>\n" \o
    "            <DbtrAgt>\n" \o
    "                <FinInstnId>\n" \o
    "                    <BIC>TPAYSKBX</BIC>\n" \o
    "                </FinInstnId>\n" \o
    "            </DbtrAgt>\n" \o
    "            <CdtTrfTxInf>\n" \o
    "                <PmtId>\n" \o
    "                    <EndToEndId>NOTPROVIDED</EndToEndId>\n" \o
    "                </PmtId>\n" \o
    "                <PmtTpInf>\n" \o
    "                    <LclInstrm>\n" \o
    "                        <Cd>010000</Cd>\n" \o
    "                    </LclInstrm>\n" \o
    "                </PmtTpInf>\n" \o
    "                <Amt>\n" \o
    "                    <InstdAmt Ccy=\"{Currency}\">{Amount}</InstdAmt>\n" \o
    "                </Amt>\n" \o
    "                <CdtrAgt>\n" \o
    "                    <FinInstnId>\n" \o
    "                        <BIC>{CreditorBankBic}</BIC>\n" \o
    "                    </FinInstnId>\n" \o
    "                </CdtrAgt>\n" \o
    "                <Cdtr>\n" \o
    "                    <Nm>{CreditorName}</Nm>\n" \o
    "                </Cdtr>\n" \o
    "                <CdtrAcct>\n" \o
    "                    <Id>\n" \o
    "                        <IBAN>{CreditorAccount}</IBAN>\n" \o
    "                    </Id>\n" \o
    "                </CdtrAcct>\n" \o
    "                <RmtInf>\n" \o
    "                    <Ustrd>{Description}</Ustrd>\n" \o
    "                </RmtInf>\n" \o
    "            </CdtTrfTxInf>\n" \o
    "        </PmtInf>\n" \o
    "    </CstmrCdtTrfInitn>\n" \o
    "</Document>\n" \o
    ""

TemplateFields ==
    <<"MessageId", "CreationDateTime", "RequestedExecutionDate", "DebtorName",
      "DebtorAccount", "Currency", "Amount", "CreditorBankBic", "CreditorName",
      "CreditorAccount", "Description">>

\* How str.format reads a template whose replacement fields are plain names
\* ("{Name}", no "{{", conversion or format spec): the literal texts, each
\* with the name of the field that follows it ("" after the last).
RECURSIVE ParseFormat(_)
ParseFormat(template) ==
    IF ~Contains(template, "{") THEN <<[literal_text |-> template, field_name |-> ""]>>
    ELSE LET open == Find(template, "{")
             rest == SubSeq(template, open + 1, Len(template))
             close == Find(rest, "}")
         IN  <<[literal_text |-> SubSeq(template, 1, open - 1),
                field_name |-> SubSeq(rest, 1, close - 1)]>>
             \o ParseFormat(SubSeq(rest, close + 1, Len(rest)))

order_xml_parsed == ParseFormat(order_xml_string)

\* Fault: str.format with every field converted by !r, so that a str value
\* arrives in quotes.
RECURSIVE str_format_repr(_, _)
str_format_repr(parsed, config) ==
    IF parsed = <<>> THEN ""
    ELSE LET value == GetItem(config, Head(parsed).field_name)
         IN  Head(parsed).literal_text
             \o (IF Head(parsed).field_name = "" THEN ""
                 ELSE IF value.t = "str" THEN "'" \o value.v \o "'"
                 ELSE PyFormat(value))
             \o str_format_repr(Tail(parsed), config)

\* template.format(**config), on the parsed template, for a config that has
\* every field: left to right, each field is replaced by the format of its
\* value; the substituted text is not scanned again.
RECURSIVE str_format(_, _)
str_format(parsed, config) ==
    IF parsed = <<>> THEN ""
    ELSE Head(parsed).literal_text
         \o (IF Head(parsed).field_name = "" THEN ""
             ELSE PyFormat(GetItem(config, Head(parsed).field_name)))
         \o str_format(Tail(parsed), config)

-----------------------------------------------------------------------------
(* trustpay/client.py: constants, the provider, exceptions *)

DEFAULT_BASE_API_URL == "https://api.trustpay.eu"

SUPPORTED_CURRENCIES == <<"EUR">>

HTTPStatus_OK == 200

\* x in l, for a list l
InList(x, l) == \E i \in DOMAIN l : l[i] = x

\* What requests.post returns: the status code and the body text.
Response(status_code, text) == [status_code |-> status_code, text |-> text]

\* The provider's answers, per endpoint: a 200 with the documented body, and
\* a failure.  The token endpoint may also answer 200 with an empty
\* access_token, the account lookup 200 with an empty object.
ProviderAnswers(endpoint) ==
    CASE endpoint = "/api/oauth2/token" ->
           { Response(200, "{\"access_token\": \"L3_DbiQdateYLPYmp31AHEe\", \"token-type\": \"bearer\"}"),
             Response(200, "{\"access_token\": \"\", \"token-type\": \"bearer\"}"),
             Response(401, "{\"error\": \"invalid_client\"}") }
      [] endpoint = "/ApiBanking/GetAccountDetails" ->
           { Response(200, "{\"AccountDetails\": {\"AccountId\": 2107920199, \"AccountName\": \"SOME NAME\"}}"),
             Response(200, "{}"),
             Response(500, "Internal Server Error") }
      [] endpoint = "/ApiBanking/CreateOrder" ->
           { Response(200, "{\"OrderId\": 123123}"),
             Response(400, "{\"Message\": \"Invalid XML\"}") }
      [] endpoint = "/api/Payments/Payment" ->
           { Response(200, "{\"GatewayUrl\": \"https://amapi.trustpay.eu/mapi5/Card/PayPopup\"}"),
             Response(422, "{\"ResultInfo\": {\"ResultCode\": 1100}}") }
      [] endpoint = "/mapi5/Wire/PayPopup" ->
           { Response(200, "{\"ResultCode\": 0}"),
             Response(403, "{\"ResultCode\": 1003}") }

\* json.loads, on the body texts above that are JSON
json_loads(text) ==
    CASE text = "{\"access_token\": \"L3_DbiQdateYLPYmp31AHEe\", \"token-type\": \"bearer\"}" ->
           PyDict(<< <<"access_token", PyStr("L3_DbiQdateYLPYmp31AHEe")>>,
                     <<"token-type", PyStr("bearer")>> >>)
      [] text = "{\"access_token\": \"\", \"token-type\": \"bearer\"}" ->
           PyDict(<< <<"access_token", PyStr("")>>, <<"token-type", PyStr("bearer")>> >>)
      [] text = "{\"AccountDetails\": {\"AccountId\": 2107920199, \"AccountName\": \"SOME NAME\"}}" ->
           PyDict(<< <<"AccountDetails",
                       PyDict(<< <<"AccountId", PyInt(2107920199)>>,
                                 <<"AccountName", PyStr("SOME NAME")>> >>)>> >>)
      [] text = "{}" -> PyDict(<<>>)
      [] text = "{\"OrderId\": 123123}" -> PyDict(<< <<"OrderId", PyInt(123123)>> >>)
      [] text = "{\"GatewayUrl\": \"https://amapi.trustpay.eu/mapi5/Card/PayPopup\"}" ->
           PyDict(<< <<"GatewayUrl", PyStr("https://amapi.trustpay.eu/mapi5/Card/PayPopup")>> >>)
      [] text = "{\"ResultCode\": 0}" -> PyDict(<< <<"ResultCode", PyInt(0)>> >>)

\* An exception: its class and str(exception).
Exception(type, msg) == [type |-> type, msg |-> msg]

NoException == Exception("", "")

\* What a call, or a step of one, comes to: the requests.post exchanges it
\* made, in order, the messages it handed to sign(), and the value it
\* returned or the exception it raised.  A method is the set of the outcomes
\* it can come to, one for each way the provider can answer its requests.
Return(log, value) ==
    [log |-> log, signed |-> <<>>, raised |-> FALSE, exc |-> NoException, value |-> value]

Raise(log, exc) ==
    [log |-> log, signed |-> <<>>, raised |-> TRUE, exc |-> exc, value |-> PyNone]

\* The outcome `out` of a step that ran after the exchanges of `log`.
After(log, out) == [out EXCEPT !.log = log \o out.log]

-----------------------------------------------------------------------------
(* trustpay/client.py: class Trustpay *)

\* hmac.new(key, message, hashlib.sha256).hexdigest().upper(): the digest is
\* left uninterpreted, a term over the key and the message.
HmacSha256HexUpper(key, message) == "HMAC-SHA256-HEX-UPPER(" \o key \o ", " \o message \o ")"

\* sign: hmac.new raises TypeError unless the key is bytes (or bytearray).
sign(self, message) ==
    IF self.secret_key.t = "bytes"
    THEN PyStr(HmacSha256HexUpper(self.secret_key.v, message))
    ELSE PyNone

\* One requests.post: what was posted and what came back.  The posted body
\* is kept as the dict and the name of the function that encodes it.
Exchange(call, url, headers, data, transform_data_func, resp) ==
    [call |-> call, url |-> url, headers |-> headers, data |-> data,
     transform_data_func |-> transform_data_func,
     status_code |-> resp.status_code, text |-> resp.text]

\* The data= argument of the requests.post of exchange x: post_params in
\* _send_request, the dict itself in refund_payment.
post_params(x) ==
    CASE x.transform_data_func = "urlencode" -> PyStr(urlencode(x.data))
      [] x.transform_data_func = "json.dumps" -> PyStr(json_dumps(x.data))
      [] x.transform_data_func = "" -> x.data

\* _generate_url
generate_url(self, endpoint) == self.api_url \o endpoint

\* Fault: _send_request without the status check of lines 131-134, the body
\* of an answer other than 200 read as an empty result.
send_request_unchecked(self, endpoint, data, headers, transform_data_func, call) ==
    { LET r == Exchange(call, generate_url(self, endpoint), headers, data,
                        transform_data_func, resp)
      IN  IF resp.status_code # HTTPStatus_OK
          THEN Return(<<r>>, PyDict(<<>>))
          ELSE Return(<<r>>, json_loads(resp.text))
      : resp \in ProviderAnswers(endpoint) }

\* _send_request
send_request(self, endpoint, data, headers, transform_data_func, call) ==
    { LET r == Exchange(call, generate_url(self, endpoint), headers, data,
                        transform_data_func, resp)
      IN  IF resp.status_code # HTTPStatus_OK
          THEN Raise(<<r>>, Exception("PaymentException",
                   "Trustpay error: " \o resp.text \o ". Error code: "
                   \o ToString(resp.status_code)))
          ELSE Return(<<r>>, json_loads(resp.text))
      : resp \in ProviderAnswers(endpoint) }

\* _prepare_headers and get_access_token call each other.
RECURSIVE get_access_token(_, _)

\* Fault: _prepare_headers that ignores with_access_token and always builds
\* the Basic header.
prepare_headers_basic(self, with_access_token, call) ==
    { Return(<<>>,
             PyDict(<< <<"Authorization",
                         PyStr("Basic " \o b64encode(self.username \o ":" \o self.password))>>,
                       <<"Content-Type", PyStr("application/x-www-form-urlencoded")>> >>)) }

\* _prepare_headers
prepare_headers(self, with_access_token, call) ==
    IF with_access_token
    THEN { IF access_token.raised THEN access_token
           ELSE Return(access_token.log,
                       PyDict(<< <<"Authorization",
                                   PyStr("bearer " \o PyFormat(access_token.value))>>,
                                 <<"Content-Type", PyStr("text/json")>> >>))
           : access_token \in get_access_token(self, call) }
    ELSE { Return(<<>>,
                  PyDict(<< <<"Authorization",
                              PyStr("Basic "
                                    \o b64encode(self.username \o ":" \o self.password))>>,
                            <<"Content-Type",
                              PyStr("application/x-www-form-urlencoded")>> >>)) }

\* get_access_token
get_access_token(self, call) ==
    IF Truthy(self.access_token) THEN {Return(<<>>, self.access_token)}
    ELSE LET data == PyDict(<< <<"grant_type", PyStr("client_credentials")>> >>)
         IN  UNION {
               { IF result.raised THEN result
                 ELSE IF ~HasKey(result.value, "access_token")
                 THEN Raise(result.log, Exception("KeyError", "'access_token'"))
                 ELSE Return(result.log, GetItem(result.value, "access_token"))
                 : result \in send_request(self, "/api/oauth2/token", data, headers.value,
                                           "urlencode", call) }
               : headers \in prepare_headers(self, FALSE, call) }

\* account_details
account_details(self, call) ==
    LET data == PyDict(<< <<"AccountId", self.aid>> >>)
    IN  UNION {
          IF headers.raised THEN {headers}
          ELSE { LET result == After(headers.log, sent)
                 IN  IF result.raised THEN result
                     ELSE IF ~HasKey(result.value, "AccountDetails")
                     THEN Raise(result.log, Exception("KeyError", "'AccountDetails'"))
                     ELSE Return(result.log, GetItem(result.value, "AccountDetails"))
                 : sent \in send_request(self, "/ApiBanking/GetAccountDetails", data,
                                         headers.value, "json.dumps", call) }
          : headers \in prepare_headers(self, TRUE, call) }

\* str(uuid.uuid4()), datetime.today().isoformat() and, read after it,
\* date.today().isoformat(): a reading with no microseconds, and one just
\* before midnight whose date is read after it.
Environments ==
    { [uuid4 |-> "3f2b8c1e-9a4d-4e6f-8b7a-1c2d3e4f5a6b", now |-> "2026-11-04T10:15:30",
       today |-> "2026-11-04"],
      [uuid4 |-> "00000000-0000-4000-8000-000000000000", now |-> "2026-12-31T23:59:59.999999",
       today |-> "2027-01-01"] }

CurrencyNotSupported ==
    Exception("AttributeError",
              "Currency not supported. Please use any from this list: "
              \o ListRepr(SUPPORTED_CURRENCIES))

\* send_money, from line 222 on: the account details are in hand.
CreateOrder(self, a, env, details, call) ==
    IF ~HasKey(details.value, "AccountId")
    THEN {Raise(details.log, Exception("KeyError", "'AccountId'"))}
    ELSE IF ~HasKey(details.value, "AccountName")
    THEN {Raise(details.log, Exception("KeyError", "'AccountName'"))}
    ELSE
    LET code == SubSeq(Replace(env.uuid4, "-", ""), 1, 12)
        config ==
            PyDict(<< <<"MessageId",
                        PyStr(PyFormat(GetItem(details.value, "AccountId")) \o "-" \o code)>>,
                      <<"CreationDateTime", PyStr(SplitFirst(env.now, "."))>>,
                      <<"RequestedExecutionDate", PyStr(env.today)>>,
                      <<"DebtorName", GetItem(details.value, "AccountName")>>,
                      <<"DebtorAccount", GetItem(details.value, "AccountId")>>,
                      <<"Currency", PyStr(a.currency)>>,
                      <<"Amount", a.amount>>,
                      <<"CreditorBankBic", PyStr(a.bank_bik)>>,
                      <<"CreditorName", PyStr(a.recipient)>>,
                      <<"CreditorAccount", PyStr(a.account)>>,
                      <<"Description", PyStr(a.details)>> >>)
        order_data == Replace(str_format(order_xml_parsed, config), "\n", " ")
        data_to_send == PyDict(<< <<"Xml", PyStr(order_data)>> >>)
    IN  UNION {
          IF headers.raised THEN {After(details.log, headers)}
          ELSE { After(details.log \o headers.log, sent)
                 : sent \in send_request(self, "/ApiBanking/CreateOrder", data_to_send,
                                         headers.value, "json.dumps", call) }
          : headers \in prepare_headers(self, TRUE, call) }

\* Fault: send_money with the currency check after the account lookup.
send_money_late_gate(self, a, env, call) ==
    UNION {
      IF details.raised THEN {details}
      ELSE IF ~InList(a.currency, SUPPORTED_CURRENCIES)
      THEN {Raise(details.log, CurrencyNotSupported)}
      ELSE CreateOrder(self, a, env, details, call)
      : details \in account_details(self, call) }

\* Fault: send_money that looks the account up a second time when the first
\* lookup fails.
send_money_retry(self, a, env, call) ==
    IF ~InList(a.currency, SUPPORTED_CURRENCIES) THEN {Raise(<<>>, CurrencyNotSupported)}
    ELSE UNION {
           IF details.raised
           THEN UNION {
                  IF again.raised THEN {After(details.log, again)}
                  ELSE CreateOrder(self, a, env, After(details.log, again), call)
                  : again \in account_details(self, call) }
           ELSE CreateOrder(self, a, env, details, call)
           : details \in account_details(self, call) }

\* send_money
send_money(self, a, env, call) ==
    IF ~InList(a.currency, SUPPORTED_CURRENCIES) THEN {Raise(<<>>, CurrencyNotSupported)}
    ELSE UNION {
           IF details.raised THEN {details} ELSE CreateOrder(self, a, env, details, call)
           : details \in account_details(self, call) }

UpperLetters == "ABCDEFGHIJKLMNOPQRSTUVWXYZ"

LowerLetters == "abcdefghijklmnopqrstuvwxyz"

\* s.lower(), for ASCII s
RECURSIVE lower(_)
lower(s) ==
    IF s = "" THEN ""
    ELSE LET c == Char(s, 1)
         IN  (IF Contains(UpperLetters, c) THEN Char(LowerLetters, Find(UpperLetters, c)) ELSE c)
             \o lower(SubSeq(s, 2, Len(s)))

\* kwargs.get(key, default)
DictGet(d, key, default) == IF HasKey(d, key) THEN GetItem(d, key) ELSE default

\* create_payment
create_payment(self, a, call) ==
    LET trustly ==
            IF lower(a.code) = lower("trustly")
            THEN << <<"Country", DictGet(a.kwargs, "country", PyStr("US"))>>,
                    <<"Debtor",
                      PyDict(<< <<"FirstName", DictGet(a.kwargs, "first_name", PyStr(""))>>,
                                <<"LastName", DictGet(a.kwargs, "last_name", PyStr(""))>>,
                                <<"Identification",
                                  PyDict(<< <<"Id", DictGet(a.kwargs, "email", PyStr(""))>> >>)>>,
                                <<"Email", DictGet(a.kwargs, "email", PyStr(""))>> >>)>> >>
            ELSE <<>>
        instant ==
            IF lower(a.code) = lower("InstantBankTransferFI")
            THEN << <<"Debtor",
                      PyDict(<< <<"Email", DictGet(a.kwargs, "email", PyStr(""))>> >>)>> >>
            ELSE <<>>
        payload ==
            PyDict(<< <<"PaymentMethod", PyStr(a.code)>>,
                      <<"MerchantIdentification", PyDict(<< <<"ProjectId", self.aid>> >>)>>,
                      <<"PaymentInformation",
                        PyDict(<< <<"Amount", PyDict(<< <<"Amount", a.amount>>,
                                                        <<"Currency", PyStr(a.currency)>> >>)>>,
                                  <<"IsRedirect", PyBool(TRUE)>>,
                                  <<"Localization", PyStr("EN")>>,
                                  <<"References",
                                    PyDict(<< <<"MerchantReference",
                                                PyStr(a.merchant_reference)>> >>)>> >>
                               \o trustly \o instant)>>,
                      <<"CallbackUrls",
                        PyDict(<< <<"Notification", PyStr(a.notification_url)>>,
                                  <<"Success", PyStr(a.success_url)>>,
                                  <<"Error", PyStr(a.error_url)>> >>)>> >>)
    IN  UNION {
          IF headers.raised THEN {headers}
          ELSE { After(headers.log, sent)
                 : sent \in send_request(self, "/api/Payments/Payment", payload,
                                         headers.value, "json.dumps", call) }
          : headers \in prepare_headers(self, TRUE, call) }

payment_type == 8

\* Fault: the signed text with the amount as str(amount), not to two decimals.
refund_signature_data_unformatted(self, a) ==
    PyFormat(self.aid) \o "/" \o PyFormat(a.amount) \o "/" \o a.currency \o "/"
    \o a.reference \o "/" \o ToString(payment_type) \o "/" \o ToString(a.payment_request_id)

\* The f-string of line 346, the text refund_payment signs.
refund_signature_data(self, a) ==
    PyFormat(self.aid) \o "/" \o FormatFixed2(a.amount.v) \o "/" \o a.currency \o "/"
    \o a.reference \o "/" \o ToString(payment_type) \o "/" \o ToString(a.payment_request_id)

\* refund_payment: it posts through requests.post itself, with the dict as
\* the form data and no Authorization header.
refund_payment(self, a, call) ==
    IF ~InList(a.currency, SUPPORTED_CURRENCIES) THEN {Raise(<<>>, CurrencyNotSupported)}
    ELSE
    LET endpoint == "/mapi5/Wire/PayPopup"
        signature_data == refund_signature_data(self, a)
        signature == sign(self, signature_data)
        data0 ==
            PyDict(<< <<"AccountId", self.aid>>,
                      <<"Amount", PyStr(FormatFixed2(a.amount.v))>>,
                      <<"Currency", PyStr(a.currency)>>,
                      <<"Reference", PyStr(a.reference)>>,
                      <<"PaymentType", PyInt(payment_type)>>,
                      <<"PaymentRequestId", PyInt(a.payment_request_id)>>,
                      <<"Signature", signature>> >>)
        data == IF Truthy(a.notification_url)
                THEN SetNewItem(data0, "NotificationUrl", a.notification_url)
                ELSE data0
        headers == PyDict(<< <<"Content-Type", PyStr("application/x-www-form-urlencoded")>> >>)
    IN  { LET r == Exchange(call, generate_url(self, endpoint), headers, data, "", resp)
              out == IF resp.status_code # HTTPStatus_OK
                     THEN Raise(<<r>>, Exception("PaymentException",
                              "Trustpay refund error: " \o resp.text \o ". Error code: "
                              \o ToString(resp.status_code)))
                     ELSE Return(<<r>>, json_loads(resp.text))
          IN  [out EXCEPT !.signed = <<[call |-> call, message |-> signature_data]>>]
          : resp \in ProviderAnswers(endpoint) }

-----------------------------------------------------------------------------
(* The state machine *)

\* The class attributes, before __init__ has run.
NoClient ==
    [state |-> "absent", secret_key |-> PyNone, aid |-> PyNone, password |-> "",
     username |-> "", api_url |-> "", access_token |-> PyNone, debug |-> FALSE]

NoEnvironment == [uuid4 |-> "", now |-> "", today |-> ""]

NoCall == [op |-> "", call |-> 0, args |-> <<>>, env |-> NoEnvironment, raised |-> FALSE,
           exc |-> NoException, value |-> PyNone]

\* The arguments of the constructor: the secret key is absent, a str (the
\* annotated type, which hmac refuses) or bytes.
InitArgs ==
    { [password |-> "pass", username |-> "user", secret_key |-> k, aid |-> PyStr("A1"),
       api_url |-> PyNone, debug |-> FALSE]
      : k \in {PyNone, PyStr("testkey"), PyBytes("testkey")} }

\* The token-endpoint exchanges among those of `log`, and those of them the
\* endpoint refused.
IsTokenExchange(self, x) == x.url = generate_url(self, "/api/oauth2/token")

TokenPosts(self, log) == Cardinality({i \in DOMAIN log : IsTokenExchange(self, log[i])})

TokenRefused(self, log) ==
    \E i \in DOMAIN log : IsTokenExchange(self, log[i]) /\ log[i].status_code # HTTPStatus_OK

Init ==
    /\ client = NoClient
    /\ http = <<>>
    /\ signed = <<>>
    /\ last = NoCall
    /\ ncalls = 0
    /\ token_posts = 0
    /\ token_refused = FALSE

\* Fault: a constructor without line 61, which leaves access_token at the
\* class attribute's None and asks the provider nothing.
Construct_lazy ==
    /\ client.state = "absent"
    /\ \E a \in InitArgs :
          /\ client' = [NoClient EXCEPT !.state = "constructed",
                                        !.secret_key = a.secret_key, !.aid = a.aid,
                                        !.password = a.password, !.username = a.username,
                                        !.api_url = PyFormat(IF Truthy(a.api_url) THEN a.api_url
                                                             ELSE PyStr(DEFAULT_BASE_API_URL)),
                                        !.debug = a.debug]
          /\ last' = [op |-> "__init__", call |-> 0, args |-> a, env |-> NoEnvironment,
                      raised |-> FALSE, exc |-> NoException, value |-> PyNone]
    /\ http' = <<>>
    /\ token_posts' = 0
    /\ token_refused' = FALSE
    /\ UNCHANGED <<signed, ncalls>>

\* Trustpay(password, username, secret_key, aid, api_url, debug): when
\* get_access_token raises, the constructor raises and there is no client.
Construct ==
    /\ client.state = "absent"
    /\ \E a \in InitArgs :
          LET self == [NoClient EXCEPT !.secret_key = a.secret_key, !.aid = a.aid,
                                       !.password = a.password, !.username = a.username,
                                       !.api_url = PyFormat(IF Truthy(a.api_url) THEN a.api_url
                                                            ELSE PyStr(DEFAULT_BASE_API_URL))]
          IN  \E token \in get_access_token(self, 0) :
                /\ client' = IF token.raised THEN [self EXCEPT !.state = "failed"]
                             ELSE [self EXCEPT !.state = "constructed",
                                               !.access_token = token.value,
                                               !.debug = a.debug]
                /\ http' = token.log
                /\ token_posts' = TokenPosts(self, token.log)
                /\ token_refused' = TokenRefused(self, token.log)
                /\ last' = [op |-> "__init__", call |-> 0, args |-> a, env |-> NoEnvironment,
                            raised |-> token.raised, exc |-> token.exc, value |-> PyNone]
    /\ UNCHANGED <<signed, ncalls>>

\* A call of a public method on the constructed client: no method but the
\* constructor assigns a field of the client.
Called(op, args, env, out) ==
    /\ http' = out.log
    /\ signed' = out.signed
    /\ token_posts' = token_posts + TokenPosts(client, out.log)
    /\ token_refused' = (token_refused \/ TokenRefused(client, out.log))
    /\ last' = [op |-> op, call |-> ncalls + 1, args |-> args, env |-> env,
                raised |-> out.raised, exc |-> out.exc, value |-> out.value]
    /\ ncalls' = ncalls + 1
    /\ UNCHANGED client

CanCall == client.state = "constructed" /\ ncalls < MaxCalls

GetAccessToken ==
    /\ CanCall
    /\ \E out \in get_access_token(client, ncalls + 1) : Called("get_access_token", <<>>, NoEnvironment, out)

AccountDetails ==
    /\ CanCall
    /\ \E out \in account_details(client, ncalls + 1) : Called("account_details", <<>>, NoEnvironment, out)

\* The arguments of send_money: the default bank_bik; a description with a
\* newline and braces; an unsupported currency.
SendMoneyArgs ==
    { [amount |-> PyFloat(100000), currency |-> "EUR", recipient |-> "John Doe",
       account |-> "SK3112000000198742637541", details |-> "Invoice 2107",
       bank_bik |-> "NOTPROVIDED"],
      [amount |-> PyFloat(9990), currency |-> "EUR", recipient |-> "Jane Roe",
       account |-> "DE89370400440532013000", details |-> "Rent\nMay {Amount}",
       bank_bik |-> "COBADEFF"],
      [amount |-> PyFloat(100000), currency |-> "USD", recipient |-> "John Doe",
       account |-> "SK3112000000198742637541", details |-> "Invoice 2107",
       bank_bik |-> "NOTPROVIDED"] }

SendMoney ==
    /\ CanCall
    /\ \E a \in SendMoneyArgs, env \in Environments :
          \E out \in send_money(client, a, env, ncalls + 1) :
             Called("send_money", a, env, out)

CreatePaymentArgs ==
    { [code |-> c.code, amount |-> PyFloat(25500), currency |-> "EUR",
       merchant_reference |-> "ORDER-7", notification_url |-> "https://shop.example/notify",
       success_url |-> "https://shop.example/ok", error_url |-> "https://shop.example/error",
       kwargs |-> c.kwargs]
      : c \in { [code |-> "Card", kwargs |-> PyDict(<<>>)],
                [code |-> "Trustly",
                 kwargs |-> PyDict(<< <<"email", PyStr("jane@example.com")>>,
                                      <<"first_name", PyStr("Jane")>> >>)],
                [code |-> "INSTANTBANKTRANSFERFI",
                 kwargs |-> PyDict(<< <<"email", PyStr("jane@example.com")>> >>)] } }

CreatePayment ==
    /\ CanCall
    /\ \E a \in CreatePaymentArgs :
          \E out \in create_payment(client, a, ncalls + 1) : Called("create_payment", a, NoEnvironment, out)

\* The arguments of refund_payment: the spec's example; an amount whose third
\* decimal is a tie, with a notification URL; an unsupported currency.
RefundArgs ==
    { [amount |-> PyFloat(100000), currency |-> "EUR", reference |-> "R1",
       payment_request_id |-> 55, notification_url |-> PyNone],
      [amount |-> PyFloat(12125), currency |-> "EUR", reference |-> "R2",
       payment_request_id |-> 56, notification_url |-> PyStr("https://shop.example/notify")],
      [amount |-> PyFloat(100000), currency |-> "USD", reference |-> "R1",
       payment_request_id |-> 55, notification_url |-> PyNone] }

RefundPayment ==
    /\ CanCall
    /\ \E a \in RefundArgs :
          \E out \in refund_payment(client, a, ncalls + 1) : Called("refund_payment", a, NoEnvironment, out)

Next ==
    \/ Construct
    \/ GetAccessToken
    \/ AccountDetails
    \/ SendMoney
    \/ CreatePayment
    \/ RefundPayment

Spec == Init /\ [][Next]_vars

-----------------------------------------------------------------------------
(* What the claims speak of *)

\* The exchanges of the most recent call with the given endpoint.
Posts(endpoint) == {i \in DOMAIN http : http[i].url = generate_url(client, endpoint)}

TokenEndpoint == "/api/oauth2/token"

RefundEndpoint == "/mapi5/Wire/PayPopup"

BearerEndpoints ==
    {"/ApiBanking/GetAccountDetails", "/ApiBanking/CreateOrder", "/api/Payments/Payment"}

OperationEndpoints == BearerEndpoints \cup {RefundEndpoint}

\* The most recent call is `op` with a currency the gate lets through / stops.
GatePassed(op) == last.op = op /\ InList(last.args.currency, SUPPORTED_CURRENCIES)

GateStopped(op) == last.op = op /\ ~InList(last.args.currency, SUPPORTED_CURRENCIES)

\* The exception carries the status code and the body text of exchange x.
Carries(exc, x) ==
    /\ IsSubstring(x.text, exc.msg)
    /\ IsSubstring("Error code: " \o ToString(x.status_code), exc.msg)

\* C1: on a constructed client, whatever the calls made and whatever
\* access_token the provider's 200 answer carried, the token endpoint has been
\* asked at most once in total.
C1_TokenRequestedAtMostOnce == client.state = "constructed" => token_posts <= 1

\* C2: send_money and refund_payment with a currency outside
\* SUPPORTED_CURRENCIES raise the unsupported-currency error (AttributeError),
\* make no requests.post at all, and leave the cached token as it was.
C2_CurrencyGate ==
    [][ (/\ ncalls' = ncalls + 1
         /\ last'.op \in {"send_money", "refund_payment"}
         /\ ~InList(last'.args.currency, SUPPORTED_CURRENCIES))
        => (/\ last'.raised
            /\ last'.exc.type = "AttributeError"
            /\ http' = <<>>
            /\ signed' = <<>>
            /\ token_posts' = token_posts
            /\ client'.access_token = client.access_token) ]_vars

\* C2 happens: a refund in USD was stopped at the gate.
C2_Witness ==
    /\ GateStopped("refund_payment")
    /\ last.raised
    /\ last.exc = CurrencyNotSupported
    /\ last.args.currency = "USD"

\* C3: a response other than 200 from GetAccountDetails, CreateOrder,
\* Payments/Payment or Wire/PayPopup ends the call: it raises
\* PaymentException with that response's status code and body text, returns
\* nothing, and posts nothing after it.
C3_FailurePropagates ==
    \A e \in OperationEndpoints : \A i \in Posts(e) :
        http[i].status_code # HTTPStatus_OK
        => /\ last.raised
           /\ last.exc.type = "PaymentException"
           /\ Carries(last.exc, http[i])
           /\ last.value = PyNone
           /\ i = Len(http)

\* C3 happens: CreateOrder refused a request, after the account lookup.
C3_Witness ==
    /\ last.op = "send_money"
    /\ Posts("/ApiBanking/CreateOrder") # {}
    /\ http[Len(http)].status_code = 400
    /\ last.exc.msg = "Trustpay error: {\"Message\": \"Invalid XML\"}. Error code: 400"

\* s.split(sep), for a one-character sep
RECURSIVE Split(_, _)
Split(s, sep) ==
    IF ~Contains(s, sep) THEN <<s>>
    ELSE <<SubSeq(s, 1, Find(s, sep) - 1)>> \o Split(SubSeq(s, Find(s, sep) + 1, Len(s)), sep)

\* C4: refund_payment signs account id / amount with two decimals / currency /
\* reference / 8 / payment request id, in that order ("A1/100.00/EUR/R1/8/55"
\* for the spec's example), and the form fields of the request are the values
\* signed.
C4_RefundSignedString ==
    GatePassed("refund_payment")
    => /\ Len(signed) = 1
       /\ Len(http) = 1
       /\ LET field == Split(signed[1].message, "/")
              data == http[1].data
          IN  /\ Len(field) = 6
              /\ field[1] = PyFormat(client.aid)
              /\ field[3] = last.args.currency
              /\ field[4] = last.args.reference
              /\ field[5] = "8"
              /\ field[6] = ToString(last.args.payment_request_id)
              /\ last.args.amount = PyFloat(100000) => field[2] = "100.00"
              /\ last.args.amount = PyFloat(12125) => field[2] = "12.12"
              /\ GetItem(data, "AccountId") = client.aid
              /\ GetItem(data, "Amount") = PyStr(field[2])
              /\ GetItem(data, "Currency") = PyStr(field[3])
              /\ GetItem(data, "Reference") = PyStr(field[4])
              /\ ToString(GetItem(data, "PaymentType").v) = field[5]
              /\ ToString(GetItem(data, "PaymentRequestId").v) = field[6]
       /\ (/\ client.aid = PyStr("A1")
           /\ last.args.amount = PyFloat(100000)
           /\ last.args.reference = "R1"
           /\ last.args.payment_request_id = 55)
          => signed[1].message = "A1/100.00/EUR/R1/8/55"

\* C4 happens: the spec's example refund was signed and posted.
C4_Witness ==
    /\ GatePassed("refund_payment")
    /\ signed = <<[call |-> last.call, message |-> "A1/100.00/EUR/R1/8/55"]>>
    /\ Len(http) = 1
    /\ GetItem(http[1].data, "Signature")
         = PyStr("HMAC-SHA256-HEX-UPPER(testkey, A1/100.00/EUR/R1/8/55)")

\* C5: sign returns None, and does not raise, when the secret key is absent
\* or not bytes; and refund_payment never posts a refund whose Signature is
\* that None.
C5_SentinelIsChecked ==
    /\ client.state = "constructed" /\ client.secret_key.t \in {"NoneType", "str"}
       => sign(client, "A1/100.00/EUR/R1/8/55") = PyNone
    /\ \A i \in Posts(RefundEndpoint) : GetItem(http[i].data, "Signature") # PyNone

\* The account details that the most recent call's lookup answered with.
LookedUp ==
    LET i == CHOOSE k \in Posts("/ApiBanking/GetAccountDetails") : TRUE
    IN  GetItem(json_loads(http[i].text), "AccountDetails")

\* The XML document the most recent call posted to CreateOrder.
PostedXml ==
    LET i == CHOOSE k \in Posts("/ApiBanking/CreateOrder") : TRUE
    IN  GetItem(http[i].data, "Xml").v

\* The eleven values send_money substitutes, as text: from the arguments,
\* from the account the lookup answered with, from the uuid (its first eight
\* and next four hex digits) and from the clock (the first 19 characters of
\* the timestamp).
Substituted ==
    [MessageId |-> ToString(GetItem(LookedUp, "AccountId").v) \o "-"
                   \o SubSeq(last.env.uuid4, 1, 8) \o SubSeq(last.env.uuid4, 10, 13),
     CreationDateTime |-> SubSeq(last.env.now, 1, 19),
     RequestedExecutionDate |-> last.env.today,
     DebtorName |-> GetItem(LookedUp, "AccountName").v,
     DebtorAccount |-> ToString(GetItem(LookedUp, "AccountId").v),
     Currency |-> last.args.currency,
     Amount |-> IF last.args.amount = PyFloat(100000) THEN "100.0" ELSE "9.99",
     CreditorBankBic |-> last.args.bank_bik,
     CreditorName |-> last.args.recipient,
     CreditorAccount |-> last.args.account,
     Description |-> last.args.details]

FieldNames == {TemplateFields[i] : i \in DOMAIN TemplateFields}

Blank(n) == SubSeq("                                ", 1, n)

\* Where the template puts each value, with the line breaks as the single
\* spaces they become.
Element(field, v) ==
    CASE field = "MessageId" -> "<MsgId>" \o v \o "</MsgId>"
      [] field = "CreationDateTime" -> "<CreDtTm>" \o v \o "</CreDtTm>"
      [] field = "RequestedExecutionDate" -> "<ReqdExctnDt>" \o v \o "</ReqdExctnDt>"
      [] field = "DebtorName" -> "<Dbtr>" \o Blank(17) \o "<Nm>" \o v \o "</Nm>"
      [] field = "DebtorAccount" -> "<Othr>" \o Blank(25) \o "<Id>" \o v \o "</Id>"
      [] field = "Currency" -> "<InstdAmt Ccy=\"" \o v \o "\">"
      [] field = "Amount" -> "\">" \o v \o "</InstdAmt>"
      [] field = "CreditorBankBic" ->
           "<CdtrAgt>" \o Blank(21) \o "<FinInstnId>" \o Blank(25) \o "<BIC>" \o v \o "</BIC>"
      [] field = "CreditorName" -> "<Cdtr>" \o Blank(21) \o "<Nm>" \o v \o "</Nm>"
      [] field = "CreditorAccount" -> "<IBAN>" \o v \o "</IBAN>"
      [] field = "Description" -> "<Ustrd>" \o v \o "</Ustrd>"

RECURSIVE SumOver(_, _)
SumOver(S, f) ==
    IF S = {} THEN 0 ELSE LET x == CHOOSE y \in S : TRUE IN f[x] + SumOver(S \ {x}, f)

\* C6 as claimed: the document send_money posts holds each substituted value
\* exactly once and no placeholder.
C6_EachValueExactlyOnce ==
    Posts("/ApiBanking/CreateOrder") # {}
    => /\ \A f \in FieldNames : Count(PostedXml, Substituted[f]) = 1
       /\ \A f \in FieldNames : ~IsSubstring("{" \o f \o "}", PostedXml)

\* C6 as amended: the document send_money posts is the template with each of
\* its eleven placeholders replaced, once and in place, by the text of its
\* value, line breaks turned to spaces: each value stands in its own element,
\* and the document is as long as the template less its placeholders plus the
\* values.  (A value may occur again elsewhere, and braces in a value stay.)
C6_EachPlaceholderReplaced ==
    Posts("/ApiBanking/CreateOrder") # {}
    => /\ \A f \in FieldNames :
            IsSubstring(Element(f, Replace(Substituted[f], "\n", " ")), PostedXml)
       /\ Len(PostedXml)
            = Len(order_xml_string)
              - SumOver(FieldNames, [f \in FieldNames |-> Len(f) + 2])
              + SumOver(FieldNames, [f \in FieldNames |-> Len(Substituted[f])])
       /\ ~Contains(PostedXml, "\n")

\* C6 happens: a document was posted whose description had a line break and
\* braces, and one with the default BIC.
C6_Witness ==
    /\ last.op = "send_money"
    /\ Posts("/ApiBanking/CreateOrder") # {}
    /\ last.args.details = "Rent\nMay {Amount}"
    /\ IsSubstring("<Ustrd>Rent May {Amount}</Ustrd>", PostedXml)
    /\ ~last.raised

\* The Authorization header of exchange x, "" when it has none.
Authorization(x) ==
    IF HasKey(x.headers, "Authorization") THEN GetItem(x.headers, "Authorization").v ELSE ""

IsBearer(x) == SubSeq(Authorization(x), 1, 7) = "bearer "

\* The 200 answer of token exchange x carried the access_token tok.
Granted(x, tok) ==
    /\ x.status_code = HTTPStatus_OK
    /\ IsSubstring("\"access_token\": \"" \o tok \o "\"", x.text)

\* C7 as claimed: a token-endpoint answer other than 200 makes the call raise
\* PaymentException with the answer's status and body and leaves no token
\* cached; and once the token endpoint has refused a client, no later call of
\* that client sends a bearer-authenticated request.
C7_NoBearerAfterRefusal ==
    [][ /\ \A i \in DOMAIN http' :
              (IsTokenExchange(client', http'[i]) /\ http'[i].status_code # HTTPStatus_OK)
              => /\ last'.raised
                 /\ last'.exc.type = "PaymentException"
                 /\ Carries(last'.exc, http'[i])
                 /\ ~Truthy(client'.access_token)
        /\ token_refused => \A i \in DOMAIN http' : ~IsBearer(http'[i]) ]_vars

\* C8 as claimed: constructing the client makes no request and leaves
\* access_token None.
C8_ConstructionIsLazy ==
    last.op = "__init__" => http = <<>> /\ client.access_token = PyNone

\* C8 as amended: constructing the client makes exactly one request, the
\* Basic-authenticated token request; the client exists only when the answer
\* was 200, and then holds the access_token of that answer.  Afterwards the
\* token endpoint is asked only by a call that needs a bearer token, and only
\* while the token held is empty.
C8_ConstructionFetchesToken ==
    /\ last.op = "__init__"
       => /\ Len(http) = 1
          /\ Posts(TokenEndpoint) = {1}
          /\ SubSeq(Authorization(http[1]), 1, 6) = "Basic "
          /\ token_posts = 1
          /\ (client.state = "constructed") = (http[1].status_code = HTTPStatus_OK)
          /\ client.state = "constructed"
             => /\ ~last.raised
                /\ client.access_token.t = "str"
                /\ Granted(http[1], client.access_token.v)
          /\ client.state = "failed" => last.raised /\ client.access_token = PyNone
    /\ (last.op # "__init__" /\ Posts(TokenEndpoint) # {})
       => /\ ~Truthy(client.access_token)
          /\ last.op \in {"get_access_token", "account_details", "send_money", "create_payment"}
    /\ (client.state = "constructed" /\ Truthy(client.access_token)) => token_posts = 1

\* C8 happens: a client was constructed, by one token request answered 200
\* with a token, and has made a bearer call since without another.
C8_Witness ==
    /\ client.state = "constructed"
    /\ client.access_token = PyStr("L3_DbiQdateYLPYmp31AHEe")
    /\ last.op = "account_details"
    /\ ~last.raised
    /\ token_posts = 1

\* C9: every request to GetAccountDetails, CreateOrder and Payments/Payment
\* carries "bearer <token>" and Content-Type text/json, the token being the
\* one the client holds from the 200 answer to its constructor's token request
\* or, when that one is empty, the one the 200 answer just before carried;
\* every token request carries Basic base64(username:password)
\* ("dXNlcjpwYXNz" for user:pass) and the form content type; a refund request
\* has no Authorization header, and refund_payment asks for no token.
C9_AuthorizationPerEndpoint ==
    /\ \A e \in BearerEndpoints : \A i \in Posts(e) :
          /\ GetItem(http[i].headers, "Content-Type") = PyStr("text/json")
          /\ IF Truthy(client.access_token)
             THEN /\ Authorization(http[i]) = "bearer " \o client.access_token.v
                  /\ Posts(TokenEndpoint) = {}
             ELSE /\ i > 1
                  /\ (i - 1) \in Posts(TokenEndpoint)
                  /\ \E tok \in {"", "L3_DbiQdateYLPYmp31AHEe"} :
                        /\ Granted(http[i - 1], tok)
                        /\ Authorization(http[i]) = "bearer " \o tok
    /\ (last.op = "__init__" /\ client.state = "constructed")
       => Granted(http[1], client.access_token.v)
    /\ \A i \in Posts(TokenEndpoint) :
          /\ (client.username = "user" /\ client.password = "pass")
             => Authorization(http[i]) = "Basic dXNlcjpwYXNz"
          /\ GetItem(http[i].headers, "Content-Type")
               = PyStr("application/x-www-form-urlencoded")
    /\ \A i \in Posts(RefundEndpoint) : ~HasKey(http[i].headers, "Authorization")
    /\ last.op = "refund_payment" => Posts(TokenEndpoint) = {}

\* C9 happens: a payment was created with the constructor's token.
C9_Witness ==
    /\ last.op = "create_payment"
    /\ Len(http) = 1
    /\ Authorization(http[1]) = "bearer L3_DbiQdateYLPYmp31AHEe"
    /\ ~last.raised

\* C10: send_money with a supported currency asks GetAccountDetails at most
\* once and CreateOrder at most once; CreateOrder only after GetAccountDetails
\* has answered 200, and never when it answered otherwise; the account lookup
\* is made unless the token request before it failed; and the debtor's name,
\* the debtor's account and the MessageId's prefix in the posted XML are those
\* of that lookup's answer.
C10_SendMoneyOrder ==
    GatePassed("send_money")
    => LET lookups == Posts("/ApiBanking/GetAccountDetails")
           orders == Posts("/ApiBanking/CreateOrder")
       IN  /\ Cardinality(lookups) <= 1
           /\ Cardinality(orders) <= 1
           /\ (lookups = {}) => (token_refused /\ last.raised)
           /\ \A i \in lookups : http[i].status_code # HTTPStatus_OK => orders = {}
           /\ \A i \in orders :
                 /\ \E j \in lookups : j < i /\ http[j].status_code = HTTPStatus_OK
                 /\ \A j \in lookups :
                       \E id \in {"2107920199"}, name \in {"SOME NAME"} :
                          /\ IsSubstring("\"AccountId\": " \o id, http[j].text)
                          /\ IsSubstring("\"AccountName\": \"" \o name \o "\"", http[j].text)
                          /\ IsSubstring("<MsgId>" \o id \o "-", PostedXml)
                          /\ IsSubstring("<Dbtr>" \o Blank(17) \o "<Nm>" \o name \o "</Nm>",
                                         PostedXml)
                          /\ IsSubstring("<Id>" \o id \o "</Id>", PostedXml)

\* C10 happens: a transfer went through, lookup then order.
C10_Witness ==
    /\ GatePassed("send_money")
    /\ ~last.raised
    /\ Len(http) = 2
    /\ http[1].url = generate_url(client, "/ApiBanking/GetAccountDetails")
    /\ http[2].url = generate_url(client, "/ApiBanking/CreateOrder")
    /\ last.value = PyDict(<< <<"OrderId", PyInt(123123)>> >>)

\* C1 fails: a client whose constructor was answered 200 with an empty
\* access_token, and whose next call asked the token endpoint again.
C1_Witness ==
    /\ client.state = "constructed"
    /\ client.access_token = PyStr("")
    /\ last.op = "get_access_token"
    /\ token_posts = 2

\* C5 fails: a refund was posted whose Signature is the None sign returned.
C5_Witness ==
    /\ last.op = "refund_payment"
    /\ client.secret_key = PyNone
    /\ Len(http) = 1
    /\ GetItem(http[1].data, "Signature") = PyNone
    /\ post_params(http[1]) = http[1].data

\* C7 fails: the token endpoint refused the client in an earlier call, and
\* this call sent a bearer-authenticated request.
C7_Witness ==
    /\ token_refused
    /\ last.op = "account_details"
    /\ Len(http) = 2
    /\ http[1].status_code = HTTPStatus_OK
    /\ IsBearer(http[2])

====
